---- MODULE Spec2Model ----
(***************************************************************************)
(* Model of the client-side session manager: AuthService (libs/auth.ts)    *)
(* over localStorage, and the AuthProvider component (AuthProvider.tsx)    *)
(* that calls it.  Every async function is cut at its awaits: one action   *)
(* per resumption, running the synchronous code up to the next await.  The *)
(* continuation of a caller awaiting a finished async function runs in the *)
(* same microtask drain, so it is part of the action that finishes it.     *)
(* The remote API is nondeterministic: every fetch may resolve with a      *)
(* success status, a 401, another non-success status, or reject.           *)
(***************************************************************************)
EXTENDS Integers, Sequences, FiniteSets, TLC

\* ---------------------------------------------------------------- bounds
\* number of async operations that may be in flight at the same time
MaxCalls == 2
\* cap on the nesting of getProfile's recursive retry (the code has none):
\* at this depth the refresh endpoint hands out no further token
MaxDepth == 2

Calls == 1..MaxCalls

\* ------------------------------------------------------- values on the wire
Null == "null"
AccessTokens == {"A1", "A2"}
RefreshTokens == {"R1", "R2"}
Users == {"u1", "u2"}

\* JavaScript truthiness of a string-or-null value
Truthy(v) == v # Null /\ v # ""

\* JSON.stringify / JSON.parse of a User
JSONstringify(u) == "{" \o u \o "}"

JSONparse(str) == CHOOSE u \in Users : JSONstringify(u) = str

\* outcomes of `await fetch(...)`: response.ok, status 401, another
\* non-success status, or a rejected promise
FetchOutcomes == {"ok", "401", "500", "throw"}

\* success bodies of the refresh endpoint: access_token at the top level
\* and/or nested under tokens; tokens may be missing altogether
NoTokens == [present |-> FALSE, access_token |-> Null]
RefreshBodies ==
    [access_token : AccessTokens \cup {Null, ""},
     tokens : {NoTokens} \cup [present : {TRUE}, access_token : AccessTokens \cup {Null, ""}]]

\* no refresh body is at hand
NoBody == [access_token |-> "none", tokens |-> NoTokens]

\* a refresh body that response.json() cannot parse: it rejects
Malformed == [access_token |-> "malformed", tokens |-> NoTokens]

\* what a successful refresh response may carry
RefreshResponses == RefreshBodies \cup {Malformed}

\* the Authorization header of a request
NoHeader == <<>>
Bearer(token) == <<"Bearer", token>>

\* what a finished call handed to its caller
NoRet == [user |-> Null, access |-> Null, refresh |-> Null]

IdleCall ==
    [op |-> "idle", pc |-> "idle", depth |-> 0, gets |-> 0, refreshes |-> 0,
     reqs |-> 0, auth |-> NoHeader, resp |-> "none", data |-> NoBody,
     result |-> "none", ret |-> NoRet]

EmptyStore == [access_token |-> Null, refresh_token |-> Null, user |-> Null]

VARIABLES
    hasWindow,   \* typeof window !== 'undefined'
    store,       \* localStorage: the three keys the service uses
    user,        \* AuthProvider state: user
    loading,     \* AuthProvider state: loading
    mounted,     \* the mount effect (checkAuth) has run
    calls,       \* the async operations in flight
    destroyed    \* history: logout or a successful deleteAccount has completed
                 \* and no login or register has succeeded since

vars == <<hasWindow, store, user, loading, mounted, calls, destroyed>>

\* ------------------------------------------------------------ Session Store
getAccessToken == IF ~hasWindow THEN Null ELSE store.access_token

getRefreshToken == IF ~hasWindow THEN Null ELSE store.refresh_token

getUser ==
    IF ~hasWindow THEN Null
    ELSE IF Truthy(store.user) THEN JSONparse(store.user) ELSE Null

\* a bug: the write is attempted without looking for the medium
setTokens_Unguarded(s, accessToken, refreshToken) ==
    [s EXCEPT !.access_token = accessToken, !.refresh_token = refreshToken]

setTokens(s, accessToken, refreshToken) ==
    IF ~hasWindow THEN s
    ELSE [s EXCEPT !.access_token = accessToken, !.refresh_token = refreshToken]

\* a bug: the cached identity is left behind
clearTokens_KeepsUser(s) ==
    IF ~hasWindow THEN s ELSE [s EXCEPT !.access_token = Null, !.refresh_token = Null]

clearTokens(s) == IF ~hasWindow THEN s ELSE EmptyStore

setUser(s, u) == IF ~hasWindow THEN s ELSE [s EXCEPT !.user = JSONstringify(u)]

\* a bug: the refresh token is asked for as well
isAuthenticated_NeedsRefreshToken == Truthy(getAccessToken) /\ Truthy(getRefreshToken)

isAuthenticated == Truthy(getAccessToken)

\* getHeaders run when localStorage holds s
getHeadersIn(s, includeAuth) ==
    LET token == IF ~hasWindow THEN Null ELSE s.access_token
    IN  IF includeAuth /\ Truthy(token) THEN Bearer(token) ELSE NoHeader

getHeaders(includeAuth) == getHeadersIn(store, includeAuth)

\* ------------------------------------------------------------------ helpers
\* the call issues a request (the synchronous part of `await fetch`)
\* when localStorage holds s
IssueIn(s, call, includeAuth, nextPc) ==
    [call EXCEPT !.pc = nextPc, !.reqs = @ + 1, !.auth = getHeadersIn(s, includeAuth),
                 !.resp = "none", !.data = NoBody]

Issue(call, includeAuth, nextPc) == IssueIn(store, call, includeAuth, nextPc)

\* the async function settles: resolved ("ok", "true", "false") or rejected
Finish(call, res, ret) == [call EXCEPT !.pc = "done", !.result = res, !.ret = ret]

\* `await fetch` settled with outcome o
Got(call, o) == [call EXCEPT !.resp = o, !.auth = NoHeader, !.data = NoBody]

\* a bug: a 401 makes the call send its request again
Rejected_RetriesOn401(call, o) ==
    IF o = "401" THEN Issue(Got(call, o), TRUE, "fetch")
    ELSE [Got(call, o) EXCEPT !.pc = "errjson"]

\* `if (!response.ok)`: the call goes on to read the error body and throw
Rejected(call, o) == [Got(call, o) EXCEPT !.pc = "errjson"]

\* `await response.json()` of the refresh endpoint gave data
Read(call, data) == [call EXCEPT !.data = data]

\* a new call takes the first free slot
Idle(c) == calls[c].pc = "idle" /\ \A d \in Calls : d < c => calls[d].pc # "idle"

At(c, op, pc) == calls[c].op = op /\ calls[c].pc = pc

Begin(op) == [IdleCall EXCEPT !.op = op]

\* ------------------------------------------------------------------- Init
Init ==
    /\ hasWindow = TRUE
    /\ store \in {EmptyStore} \cup
                 [access_token : AccessTokens, refresh_token : RefreshTokens,
                  user : {JSONstringify(u) : u \in Users}]
    /\ user = Null
    /\ loading = TRUE
    /\ mounted = FALSE
    /\ calls = [c \in Calls |-> IdleCall]
    /\ destroyed = FALSE

\* ------------------------------------------------- the provider's callers
\* the async function of the service settled without throwing
Resolved(res) == res \in {"ok", "true", "false"}

\* AuthProvider: what the provider function does once the service call it
\* awaited has settled (setUser / the catch and finally of checkAuth)
ProviderUser(op, res, ret) ==
    IF ~Resolved(res) THEN user
    ELSE CASE op \in {"login", "register", "updateProfile", "refreshUser", "checkAuth"} -> ret.user
           [] op \in {"logout", "deleteAccount"} -> Null
           [] OTHER -> user

ProviderStore(op, res, s) ==
    IF op = "checkAuth" /\ ~Resolved(res) THEN clearTokens(s) ELSE s

ProviderLoading(op) == IF op = "checkAuth" THEN FALSE ELSE loading

\* whether the user has ended the session and not begun a new one
ProviderDestroyed(op, res) ==
    CASE op = "logout" \/ (op = "deleteAccount" /\ res = "ok") -> TRUE
      [] op \in {"login", "register"} /\ res = "ok" -> FALSE
      [] OTHER -> destroyed

\* call c takes a step that leaves the store as s2; when the step settles the
\* service call, the provider's continuation runs with it
Step(c, call2, s2) ==
    /\ \A d \in Calls : calls[d].pc # "done"
    /\ calls' = [calls EXCEPT ![c] = call2]
    /\ IF call2.pc = "done"
       THEN /\ store' = ProviderStore(call2.op, call2.result, s2)
            /\ user' = ProviderUser(call2.op, call2.result, call2.ret)
            /\ loading' = ProviderLoading(call2.op)
            /\ destroyed' = ProviderDestroyed(call2.op, call2.result)
       ELSE /\ store' = s2
            /\ UNCHANGED <<user, loading, destroyed>>
    /\ UNCHANGED <<hasWindow, mounted>>

\* the caller has consumed the settled promise; it does so before any other
\* task runs, so no other call steps while a call sits in "done"
Return(c) ==
    /\ calls[c].pc = "done"
    /\ calls' = [calls EXCEPT ![c] = IdleCall]
    /\ UNCHANGED <<hasWindow, store, user, loading, mounted, destroyed>>

\* -------------------------------------------------------------------- login
LoginBodies == [user : Users, access : AccessTokens, refresh : RefreshTokens]

\* a bug: the identity is not saved with the tokens
LoginPersist_NoUser(s, data) == setTokens(s, data.access, data.refresh)

LoginPersist(s, data) == setUser(setTokens(s, data.access, data.refresh), data.user)

LoginStart(c) ==
    /\ mounted /\ Idle(c)
    /\ Step(c, Issue(Begin("login"), FALSE, "fetch"), store)

LoginFetch(c) ==
    /\ At(c, "login", "fetch")
    /\ \E o \in FetchOutcomes :
         Step(c, CASE o = "ok" -> [Got(calls[c], o) EXCEPT !.pc = "json"]
                   [] o = "throw" -> Finish(Got(calls[c], o), "TransportError", NoRet)
                   [] OTHER -> Rejected(calls[c], o),
              store)

LoginErrJson(c) ==
    /\ At(c, "login", "errjson")
    /\ \E res \in {"AuthError", "TransportError"} :
         Step(c, Finish(calls[c], res, NoRet), store)

LoginJson(c) ==
    /\ At(c, "login", "json")
    /\ \/ Step(c, Finish(calls[c], "TransportError", NoRet), store)
       \/ \E data \in LoginBodies :
            Step(c, Finish(calls[c], "ok", data), LoginPersist(store, data))

\* ----------------------------------------------------------------- register
NoRegTokens == [present |-> FALSE, access_token |-> Null, refresh_token |-> Null]

RegisterBodies ==
    [user : Users,
     tokens : {NoRegTokens} \cup
              [present : {TRUE}, access_token : AccessTokens, refresh_token : RefreshTokens]]

\* a bug: the identity is saved whether or not tokens came with it
RegisterPersist_Always(s, data) ==
    setUser(IF data.tokens.present
            THEN setTokens(s, data.tokens.access_token, data.tokens.refresh_token)
            ELSE s,
            data.user)

RegisterPersist(s, data) ==
    IF data.tokens.present
    THEN setUser(setTokens(s, data.tokens.access_token, data.tokens.refresh_token), data.user)
    ELSE s

RegisterRet(data) ==
    [user |-> data.user, access |-> data.tokens.access_token,
     refresh |-> data.tokens.refresh_token]

RegisterStart(c) ==
    /\ mounted /\ Idle(c)
    /\ Step(c, Issue(Begin("register"), FALSE, "fetch"), store)

RegisterFetch(c) ==
    /\ At(c, "register", "fetch")
    /\ \E o \in FetchOutcomes :
         Step(c, CASE o = "ok" -> [Got(calls[c], o) EXCEPT !.pc = "json"]
                   [] o = "throw" -> Finish(Got(calls[c], o), "TransportError", NoRet)
                   [] OTHER -> Rejected(calls[c], o),
              store)

RegisterErrJson(c) ==
    /\ At(c, "register", "errjson")
    /\ \E res \in {"AuthError", "TransportError"} :
         Step(c, Finish(calls[c], res, NoRet), store)

RegisterJson(c) ==
    /\ At(c, "register", "json")
    /\ \/ Step(c, Finish(calls[c], "TransportError", NoRet), store)
       \/ \E data \in RegisterBodies :
            Step(c, Finish(calls[c], "ok", RegisterRet(data)), RegisterPersist(store, data))

\* ------------------------------------------------------------------- logout
\* the finally block of logout
LogoutFinally(s) == clearTokens(s)

LogoutStart(c) ==
    /\ mounted /\ Idle(c)
    /\ IF Truthy(getRefreshToken)
       THEN Step(c, Issue(Begin("logout"), TRUE, "fetch"), store)
       ELSE Step(c, Finish(Begin("logout"), "ok", NoRet), LogoutFinally(store))

LogoutFetch(c) ==
    /\ At(c, "logout", "fetch")
    /\ \E o \in FetchOutcomes :
         Step(c, Finish(Got(calls[c], o), "ok", NoRet), LogoutFinally(store))

\* ----------------------------------------------------------- deleteAccount
\* a bug: the session is cleared before the status is looked at
DeleteAccountStore_Always(s, o) == clearTokens(s)

\* the store after the DELETE settled with outcome o
DeleteAccountStore(s, o) == IF o = "ok" THEN clearTokens(s) ELSE s

DeleteAccountStart(c) ==
    /\ mounted /\ Idle(c)
    /\ Step(c, Issue(Begin("deleteAccount"), TRUE, "fetch"), store)

DeleteAccountFetch(c) ==
    /\ At(c, "deleteAccount", "fetch")
    /\ \E o \in FetchOutcomes :
         Step(c, CASE o = "ok" -> Finish(Got(calls[c], o), "ok", NoRet)
                   [] o = "throw" -> Finish(Got(calls[c], o), "TransportError", NoRet)
                   [] OTHER -> Rejected(calls[c], o),
              DeleteAccountStore(store, o))

DeleteAccountErrJson(c) ==
    /\ At(c, "deleteAccount", "errjson")
    /\ \E res \in {"AuthError", "TransportError"} :
         Step(c, Finish(calls[c], res, NoRet), store)

\* ----------------------------------------------------------- updateProfile
UpdateProfileStart(c) ==
    /\ mounted /\ Idle(c)
    /\ Step(c, Issue(Begin("updateProfile"), TRUE, "fetch"), store)

UpdateProfileFetch(c) ==
    /\ At(c, "updateProfile", "fetch")
    /\ \E o \in FetchOutcomes :
         Step(c, CASE o = "ok" -> [Got(calls[c], o) EXCEPT !.pc = "json"]
                   [] o = "throw" -> Finish(Got(calls[c], o), "TransportError", NoRet)
                   [] OTHER -> Rejected(calls[c], o),
              store)

UpdateProfileErrJson(c) ==
    /\ At(c, "updateProfile", "errjson")
    /\ \E res \in {"AuthError", "TransportError"} :
         Step(c, Finish(calls[c], res, NoRet), store)

UpdateProfileJson(c) ==
    /\ At(c, "updateProfile", "json")
    /\ \/ Step(c, Finish(calls[c], "TransportError", NoRet), store)
       \/ \E u \in Users :
            Step(c, Finish(calls[c], "ok", [NoRet EXCEPT !.user = u]), setUser(store, u))

\* ---------------------------------------------------------- changePassword
ChangePasswordStart(c) ==
    /\ mounted /\ Idle(c)
    /\ Step(c, Issue(Begin("changePassword"), TRUE, "fetch"), store)

ChangePasswordFetch(c) ==
    /\ At(c, "changePassword", "fetch")
    /\ \E o \in FetchOutcomes :
         Step(c, CASE o = "ok" -> Finish(Got(calls[c], o), "ok", NoRet)
                   [] o = "throw" -> Finish(Got(calls[c], o), "TransportError", NoRet)
                   [] OTHER -> Rejected(calls[c], o),
              store)

ChangePasswordErrJson(c) ==
    /\ At(c, "changePassword", "errjson")
    /\ \E res \in {"AuthError", "TransportError"} :
         Step(c, Finish(calls[c], res, NoRet), store)

\* ------------------------------------------------------ refreshAccessToken
\* a bug: only the flat shape is read
ExtractAccessToken_TopOnly(data) == data.access_token

\* data.access_token || data.tokens?.access_token  (Null stands for undefined)
ExtractAccessToken(data) ==
    IF Truthy(data.access_token) THEN data.access_token
    ELSE IF data.tokens.present THEN data.tokens.access_token
    ELSE Null

\* a bug: the refresh token is rotated along with the access token
StoreAccessToken_Rotates(s, accessToken) ==
    [s EXCEPT !.access_token = accessToken, !.refresh_token = accessToken]

\* localStorage.setItem('access_token', accessToken)
StoreAccessToken(s, accessToken) == [s EXCEPT !.access_token = accessToken]

\* a bug: the early return on a missing refresh token is gone
RefreshSends_Always == TRUE

\* the refresh request is sent only when a refresh token is stored
RefreshSends == Truthy(getRefreshToken)

\* a bug: the status of the refresh response is not looked at
RefreshFetchOk_AnyStatus(o) == o # "throw"

\* what the settled refresh fetch means: go on to read the body, or false
RefreshFetchOk(o) == o = "ok"

\* the body was read: the value refreshAccessToken returns
RefreshJsonResult(data) ==
    data # Malformed /\ hasWindow /\ Truthy(ExtractAccessToken(data))

RefreshJsonStore(s, data) ==
    IF RefreshJsonResult(data) THEN StoreAccessToken(s, ExtractAccessToken(data)) ELSE s

\* the first synchronous part of refreshAccessToken, run by `call`
\* a bug: a call that finds a refresh in flight waits for that one's answer
RefreshIssue_JoinsInFlight(call) ==
    IF \E d \in Calls : calls[d].pc = "refresh_fetch"
    THEN [call EXCEPT !.pc = "refresh_json"]
    ELSE [Issue(call, FALSE, "refresh_fetch") EXCEPT !.refreshes = @ + 1, !.resp = call.resp]

\* (the status that led here stays in `resp` until the refresh is answered)
RefreshIssue(call) ==
    [Issue(call, FALSE, "refresh_fetch") EXCEPT !.refreshes = @ + 1, !.resp = call.resp]

\* refreshAccessToken called on its own (it is a public method)
RefreshStart(c) ==
    /\ mounted /\ Idle(c)
    /\ IF RefreshSends
       THEN Step(c, RefreshIssue(Begin("refreshAccessToken")), store)
       ELSE Step(c, Finish(Begin("refreshAccessToken"), "false", NoRet), store)

RefreshFetch(c) ==
    /\ At(c, "refreshAccessToken", "refresh_fetch")
    /\ \E o \in FetchOutcomes :
         IF RefreshFetchOk(o)
         THEN Step(c, [Got(calls[c], o) EXCEPT !.pc = "refresh_json"], store)
         ELSE Step(c, Finish(Got(calls[c], o), "false", NoRet), store)

RefreshJson(c) ==
    /\ At(c, "refreshAccessToken", "refresh_json")
    /\ \E data \in RefreshResponses :
         Step(c, Finish(Read(calls[c], data),
                        IF RefreshJsonResult(data) THEN "true" ELSE "false", NoRet),
              RefreshJsonStore(store, data))

\* --------------------------------------------------------------- getProfile
\* getProfile runs under checkAuth (the mount effect) and under refreshUser
ProfileOps == {"checkAuth", "refreshUser"}

\* one invocation of getProfile issues the profile GET
ProfileIssueIn(s, call) == [IssueIn(s, call, TRUE, "fetch") EXCEPT !.gets = @ + 1]

ProfileIssue(call) == ProfileIssueIn(store, call)

\* a bug: the retried request is built with the headers of the first one
ProfileRetry_StaleToken(call, s) ==
    [ProfileIssueIn(store, [call EXCEPT !.depth = @ + 1]) EXCEPT !.data = call.data]

\* refreshAccessToken returned true, having left localStorage as s:
\* `return this.getProfile()` (the refresh body stays at hand until the
\* retried request is answered)
ProfileRetry(call, s) ==
    [ProfileIssueIn(s, [call EXCEPT !.depth = @ + 1]) EXCEPT !.data = call.data]

\* a bug: every non-success status is taken for an expired token
IsUnauthorized_AnyFailure(o) == o \in {"401", "500"}

\* `response.status === 401`
IsUnauthorized(o) == o = "401"

\* refreshAccessToken returned false
ProfileExpired(call) == Finish(call, "Session expired", NoRet)

\* the mount effect: checkAuth up to its first await
CheckAuth(c) ==
    /\ ~mounted
    /\ mounted' = TRUE
    /\ Idle(c)
    /\ IF isAuthenticated
       THEN /\ calls' = [calls EXCEPT ![c] = ProfileIssue(Begin("checkAuth"))]
            /\ UNCHANGED <<loading>>
       ELSE /\ loading' = FALSE
            /\ UNCHANGED <<calls>>
    /\ UNCHANGED <<hasWindow, store, user, destroyed>>

RefreshUserStart(c) ==
    /\ mounted /\ Idle(c)
    /\ Step(c, ProfileIssue(Begin("refreshUser")), store)

ProfileFetch(c) ==
    /\ calls[c].op \in ProfileOps /\ calls[c].pc = "fetch"
    /\ \E o \in FetchOutcomes :
         CASE o = "ok" -> Step(c, [Got(calls[c], o) EXCEPT !.pc = "json"], store)
           [] o = "throw" -> Step(c, Finish(Got(calls[c], o), "TransportError", NoRet), store)
           [] IsUnauthorized(o) ->
                   IF RefreshSends
                   THEN Step(c, RefreshIssue(Got(calls[c], o)), store)
                   ELSE Step(c, ProfileExpired(Got(calls[c], o)), store)
           [] OTHER -> Step(c, Finish(Got(calls[c], o), "Failed to fetch profile", NoRet), store)

ProfileRefreshFetch(c) ==
    /\ calls[c].op \in ProfileOps /\ calls[c].pc = "refresh_fetch"
    /\ \E o \in FetchOutcomes :
         IF RefreshFetchOk(o)
         THEN Step(c, [Got(calls[c], o) EXCEPT !.pc = "refresh_json"], store)
         ELSE Step(c, ProfileExpired(Got(calls[c], o)), store)

ProfileRefreshJson(c) ==
    /\ calls[c].op \in ProfileOps /\ calls[c].pc = "refresh_json"
    /\ \E data \in RefreshResponses :
         IF RefreshJsonResult(data)
         THEN /\ calls[c].depth < MaxDepth
              /\ Step(c, ProfileRetry(Read(calls[c], data), RefreshJsonStore(store, data)),
                      RefreshJsonStore(store, data))
         ELSE Step(c, ProfileExpired(Read(calls[c], data)), RefreshJsonStore(store, data))

ProfileJson(c) ==
    /\ calls[c].op \in ProfileOps /\ calls[c].pc = "json"
    /\ \/ Step(c, Finish(calls[c], "TransportError", NoRet), store)
       \/ \E u \in Users :
            Step(c, Finish(calls[c], "ok", [NoRet EXCEPT !.user = u]), setUser(store, u))

Next ==
    \E c \in Calls :
        \/ LoginStart(c) \/ LoginFetch(c) \/ LoginErrJson(c) \/ LoginJson(c)
        \/ RegisterStart(c) \/ RegisterFetch(c) \/ RegisterErrJson(c) \/ RegisterJson(c)
        \/ LogoutStart(c) \/ LogoutFetch(c)
        \/ DeleteAccountStart(c) \/ DeleteAccountFetch(c) \/ DeleteAccountErrJson(c)
        \/ UpdateProfileStart(c) \/ UpdateProfileFetch(c) \/ UpdateProfileErrJson(c)
        \/ UpdateProfileJson(c)
        \/ ChangePasswordStart(c) \/ ChangePasswordFetch(c) \/ ChangePasswordErrJson(c)
        \/ RefreshStart(c) \/ RefreshFetch(c) \/ RefreshJson(c)
        \/ CheckAuth(c) \/ RefreshUserStart(c)
        \/ ProfileFetch(c) \/ ProfileRefreshFetch(c) \/ ProfileRefreshJson(c)
        \/ ProfileJson(c)
        \/ Return(c)

Spec == Init /\ [][Next]_vars

\* ------------------------------------------------ the start-up check alone
\* `return this.getProfile()` at depth MaxDepth, which Next leaves out: the
\* code retries at any depth.  The deeper invocation is folded onto depth
\* MaxDepth, where the counters stop counting.
ProfileRetryFolded(call, s) ==
    [ProfileRetry(call, s) EXCEPT !.depth = call.depth, !.gets = call.gets,
                                  !.refreshes = call.refreshes - 1,
                                  !.reqs = call.reqs - 1]

ProfileRefreshJsonDeep(c) ==
    /\ calls[c].op \in ProfileOps /\ calls[c].pc = "refresh_json"
    /\ calls[c].depth = MaxDepth
    /\ \E data \in RefreshResponses :
         /\ RefreshJsonResult(data)
         /\ Step(c, ProfileRetryFolded(Read(calls[c], data), RefreshJsonStore(store, data)),
                 RefreshJsonStore(store, data))

\* the provider is mounted and the user does nothing: the mount effect runs
\* checkAuth, the server answers its requests, the continuations run
NextMount ==
    \E c \in Calls :
        \/ CheckAuth(c)
        \/ ProfileFetch(c) \/ ProfileRefreshFetch(c) \/ ProfileRefreshJson(c)
        \/ ProfileRefreshJsonDeep(c)
        \/ ProfileJson(c)
        \/ Return(c)

\* the effect runs after the first render, every request is eventually
\* answered or fails, and a settled promise's continuation runs
FairMount ==
    \A c \in Calls :
        /\ WF_vars(CheckAuth(c))
        /\ WF_vars(ProfileFetch(c)) /\ WF_vars(ProfileRefreshFetch(c))
        /\ WF_vars(ProfileRefreshJson(c) \/ ProfileRefreshJsonDeep(c))
        /\ WF_vars(ProfileJson(c))
        /\ WF_vars(Return(c))

SpecMount == Init /\ [][NextMount]_vars /\ FairMount

\* --------------------------------------------- no persistence medium
\* the same program where `typeof window === 'undefined'`: there is no
\* localStorage, nothing is stored
InitNoWindow ==
    /\ hasWindow = FALSE
    /\ store = EmptyStore
    /\ user = Null
    /\ loading = TRUE
    /\ mounted = FALSE
    /\ calls = [c \in Calls |-> IdleCall]
    /\ destroyed = FALSE

\* the steps of Next that can be taken there: without a refresh token
\* logout and refreshAccessToken return before their fetch
NextNoWindow ==
    \E c \in Calls :
        \/ LoginStart(c) \/ LoginFetch(c) \/ LoginErrJson(c) \/ LoginJson(c)
        \/ RegisterStart(c) \/ RegisterFetch(c) \/ RegisterErrJson(c) \/ RegisterJson(c)
        \/ LogoutStart(c)
        \/ DeleteAccountStart(c) \/ DeleteAccountFetch(c) \/ DeleteAccountErrJson(c)
        \/ UpdateProfileStart(c) \/ UpdateProfileFetch(c) \/ UpdateProfileErrJson(c)
        \/ UpdateProfileJson(c)
        \/ ChangePasswordStart(c) \/ ChangePasswordFetch(c) \/ ChangePasswordErrJson(c)
        \/ RefreshStart(c)
        \/ CheckAuth(c) \/ RefreshUserStart(c)
        \/ ProfileFetch(c) \/ ProfileJson(c)
        \/ Return(c)

SpecNoWindow == InitNoWindow /\ [][NextNoWindow]_vars

\* ================================================================== claims
\* call c took a step
Moved(c) == calls'[c] # calls[c]

\* the three slots as the getters report them
Absent == getAccessToken = Null /\ getRefreshToken = Null /\ getUser = Null

Settled(c, op) == calls[c].op = op /\ calls[c].pc = "done"

\* the store holding exactly what a settled login or register returned
StoreOf(ret) ==
    [access_token |-> ret.access, refresh_token |-> ret.refresh,
     user |-> JSONstringify(ret.user)]

\* C1: one getProfile call issues at most two profile GETs and at most one
\* refresh POST: after a 401 and a successful refresh it retries once, and a
\* second 401 fails without another refresh or retry.
C1_AtMostOneRetry ==
    \A c \in Calls :
        calls[c].op \in ProfileOps => calls[c].gets <= 2 /\ calls[c].refreshes <= 1

\* C2: logout never fails and ends with the access token, the refresh token
\* and the identity all absent, whether no refresh token was stored (then no
\* request is made) or the request succeeded, returned a non-success status
\* or threw.
C2_LogoutAlwaysClears ==
    [][\A c \in Calls :
          (Moved(c) /\ calls'[c].op = "logout") =>
              /\ (calls[c].op = "idle" /\ ~Truthy(getRefreshToken)) =>
                     calls'[c].pc = "done" /\ calls'[c].reqs = 0
              /\ calls'[c].pc = "done" => calls'[c].result = "ok" /\ Absent']_vars

C2_LogoutThrewAndCleared ==
    \E c \in Calls :
        /\ Settled(c, "logout") /\ calls[c].resp = "throw"
        /\ calls[c].result = "ok" /\ Absent

\* C3: once getProfile has failed with 'Session expired' (a 401 followed by a
\* failed refresh), the access token, the refresh token and the identity are
\* absent from the store, under checkAuth and under refreshUser alike.
C3_ExpiredDestroysSession ==
    \A c \in Calls :
        (calls[c].op \in ProfileOps /\ calls[c].pc = "done"
            /\ calls[c].result = "Session expired") => Absent

\* C4: a successful login leaves in the store exactly the access token, the
\* refresh token and the identity it returned (getUser() is the identity
\* returned), whatever was stored before; login writes the store in that one
\* step only, all three slots together.
C4_LoginPersistsSession ==
    [][\A c \in Calls :
          (Moved(c) /\ calls'[c].op = "login") =>
              IF calls'[c].pc = "done" /\ calls'[c].result = "ok"
              THEN /\ store' = StoreOf(calls'[c].ret)
                   /\ getUser' = calls'[c].ret.user
                   /\ calls'[c].ret.user \in Users
                   /\ calls'[c].ret.access \in AccessTokens
                   /\ calls'[c].ret.refresh \in RefreshTokens
              ELSE store' = store]_vars

C4_LoggedIn ==
    \E c \in Calls :
        /\ Settled(c, "login") /\ calls[c].result = "ok"
        /\ calls[c].ret.user \in Users /\ getUser = calls[c].ret.user
        /\ getAccessToken = calls[c].ret.access

\* C5: register forks on its success response: with tokens, both tokens and
\* the identity are persisted; without tokens no slot is written, the
\* identity alone is returned, and isAuthenticated() stays false if it was.
C5_RegisterForks ==
    [][\A c \in Calls :
          (Moved(c) /\ calls'[c].op = "register") =>
              IF calls'[c].pc = "done" /\ calls'[c].result = "ok"
                    /\ calls'[c].ret.access # Null
              THEN /\ store' = StoreOf(calls'[c].ret)
                   /\ calls'[c].ret.access \in AccessTokens
                   /\ calls'[c].ret.refresh \in RefreshTokens
                   /\ calls'[c].ret.user \in Users
              ELSE /\ store' = store
                   /\ (calls'[c].pc = "done" /\ calls'[c].result = "ok") =>
                          /\ calls'[c].ret.user \in Users
                          /\ calls'[c].ret.refresh = Null
                          /\ ~isAuthenticated => ~isAuthenticated']_vars

C5_RegisteredWithoutTokens ==
    \E c \in Calls :
        /\ Settled(c, "register") /\ calls[c].result = "ok"
        /\ calls[c].ret.user \in Users /\ calls[c].ret.access = Null
        /\ ~isAuthenticated /\ Absent

\* C6: deleteAccount clears all three slots when the server returns success;
\* on a non-success status or a transport failure it raises an error and
\* leaves the three slots as they were.
C6_DeleteAccountClearsOnSuccessOnly ==
    [][\A c \in Calls :
          (Moved(c) /\ calls'[c].op = "deleteAccount") =>
              IF calls'[c].pc = "done" /\ calls'[c].resp = "ok"
              THEN calls'[c].result = "ok" /\ Absent'
              ELSE /\ store' = store
                   /\ calls'[c].pc = "done" =>
                          calls'[c].result \in {"AuthError", "TransportError"}]_vars

C6_DeleteFailedSessionKept ==
    \E c \in Calls :
        /\ Settled(c, "deleteAccount") /\ calls[c].resp = "401"
        /\ calls[c].result = "AuthError"
        /\ isAuthenticated /\ getRefreshToken # Null /\ getUser # Null

\* C7: refreshAccessToken called while no refresh token is stored returns
\* false without issuing a request and without changing the store, called
\* on its own or from getProfile after a 401.
C7_NoRefreshTokenNoRequest ==
    [][\A c \in Calls :
          /\ (Moved(c) /\ calls[c].op = "idle" /\ calls'[c].op = "refreshAccessToken"
                /\ ~Truthy(getRefreshToken)) =>
                 /\ calls'[c].pc = "done" /\ calls'[c].result = "false"
                 /\ calls'[c].reqs = 0 /\ store' = store
          /\ (Moved(c) /\ calls[c].op \in ProfileOps /\ calls[c].pc = "fetch"
                /\ calls'[c].resp = "401" /\ ~Truthy(getRefreshToken)) =>
                 /\ calls'[c].pc = "done" /\ calls'[c].result = "Session expired"
                 /\ calls'[c].reqs = calls[c].reqs
                 /\ calls'[c].refreshes = calls[c].refreshes
                 /\ calls[c].op = "refreshUser" => store' = store]_vars

C7_RefusedWithoutRequest ==
    \E c \in Calls :
        /\ Settled(c, "refreshAccessToken") /\ calls[c].result = "false"
        /\ calls[c].reqs = 0 /\ getRefreshToken = Null

\* a success body of the refresh endpoint with no access token in either shape
HasNoToken(data) ==
    \/ data = Malformed
    \/ /\ ~Truthy(data.access_token)
       /\ ~(data.tokens.present /\ Truthy(data.tokens.access_token))

\* C8: refreshAccessToken never raises: on a non-success status, a transport
\* failure or a success body with no access token in either shape it returns
\* false and leaves the three slots unchanged (under getProfile the failure
\* surfaces as 'Session expired', never as the transport's error).
C8_RefreshFailsQuietly ==
    [][\A c \in Calls :
          /\ (Moved(c) /\ calls'[c].op = "refreshAccessToken" /\ calls'[c].pc = "done") =>
                 /\ calls'[c].result \in {"true", "false"}
                 /\ calls'[c].resp \in {"401", "500", "throw"} => calls'[c].result = "false"
                 /\ (calls'[c].resp = "ok" /\ HasNoToken(calls'[c].data)) =>
                        calls'[c].result = "false"
                 /\ calls'[c].result = "false" => store' = store
          /\ (Moved(c) /\ calls[c].op \in ProfileOps
                /\ calls[c].pc \in {"refresh_fetch", "refresh_json"}) =>
                 /\ calls'[c].pc \in {"refresh_json", "fetch", "done"}
                 /\ calls'[c].pc = "done" =>
                        /\ calls'[c].result = "Session expired"
                        /\ calls[c].op = "refreshUser" => store' = store
                 /\ (calls'[c].resp \in {"401", "500", "throw"}) => calls'[c].pc = "done"]_vars

C8_UnusableBodyGaveFalse ==
    \E c \in Calls :
        /\ Settled(c, "refreshAccessToken") /\ calls[c].resp = "ok"
        /\ calls[c].data \in RefreshBodies /\ HasNoToken(calls[c].data)
        /\ calls[c].data.tokens.present
        /\ calls[c].result = "false" /\ isAuthenticated

\* C9: a successful refresh changes the access-token slot only: the refresh
\* token and the identity are as before; and over the whole program the
\* refresh token changes only by a login, a register with tokens, or a clear.
C9_RefreshTouchesAccessOnly ==
    [][/\ \A c \in Calls :
            (Moved(c) /\ calls[c].pc = "refresh_json"
               /\ (calls'[c].result = "true" \/ calls'[c].pc = "fetch")) =>
                /\ store'.refresh_token = store.refresh_token
                /\ store'.user = store.user
                /\ store'.access_token \in AccessTokens
       /\ store'.refresh_token # store.refresh_token =>
              \/ Absent'
              \/ \E c \in Calls :
                    /\ Moved(c) /\ calls'[c].op \in {"login", "register"}
                    /\ calls'[c].pc = "done" /\ calls'[c].result = "ok"
                    /\ calls'[c].ret.refresh = store'.refresh_token]_vars

C9_RefreshedKeepingRefreshToken ==
    \E c \in Calls :
        /\ Settled(c, "refreshAccessToken") /\ calls[c].result = "true"
        /\ getRefreshToken \in RefreshTokens /\ getUser \in Users
        /\ store.access_token = ExtractAccessToken(calls[c].data)

\* the two accepted shapes of a refresh body carrying the token t
FlatShape(t) == [access_token |-> t, tokens |-> NoTokens]

NestedShape(t) == [access_token |-> Null, tokens |-> [present |-> TRUE, access_token |-> t]]

\* C10: for every non-empty token t, a refresh answered with {access_token: t}
\* and one answered with {tokens: {access_token: t}} end the same way:
\* refreshAccessToken returns true and the stored access token is t.
C10_BothShapesStoreTheToken ==
    \A c \in Calls :
        (Settled(c, "refreshAccessToken") /\ calls[c].resp = "ok") =>
            \A t \in AccessTokens :
                calls[c].data \in {FlatShape(t), NestedShape(t)} =>
                    calls[c].result = "true" /\ getAccessToken = t

C10_NestedShapeStored ==
    \E c \in Calls : \E t \in AccessTokens :
        /\ Settled(c, "refreshAccessToken") /\ calls[c].data = NestedShape(t)
        /\ calls[c].result = "true" /\ getAccessToken = t

\* C11: isAuthenticated() is true exactly when a non-empty access token is
\* in the store, whatever the refresh-token and identity slots hold: it is
\* false once clearTokens() has run (logout) and true once setTokens(a, b)
\* has run with a non-empty a (login).
C11_AuthenticatedIffAccessToken ==
    /\ isAuthenticated <=> store.access_token \notin {Null, ""}
    /\ \A c \in Calls :
          /\ Settled(c, "logout") => ~isAuthenticated
          /\ (Settled(c, "login") /\ calls[c].result = "ok") => isAuthenticated

C11_AuthenticatedWithoutRefreshToken ==
    /\ isAuthenticated /\ getRefreshToken = Null /\ getUser = Null
    /\ \E c \in Calls : calls[c].op = "refreshAccessToken" /\ calls[c].result = "true"

\* the operations without a retry path
OneShotOps == {"updateProfile", "changePassword", "deleteAccount", "login", "register", "logout"}

\* C12 as claimed: updateProfile, changePassword, deleteAccount, login,
\* register and logout each issue exactly one request per call and never
\* call the refresh endpoint.
C12_ExactlyOneRequest ==
    \A c \in Calls :
        (calls[c].op \in OneShotOps /\ calls[c].pc # "idle") =>
            calls[c].reqs = 1 /\ calls[c].refreshes = 0

\* C12 as amended: each of these operations issues exactly one request per
\* call, except that logout issues none when no refresh token is stored; on
\* any non-success status, 401 included, none of them calls the refresh
\* endpoint or sends its request again.
C12_NoRetryOutsideGetProfile ==
    [][\A c \in Calls :
          (Moved(c) /\ calls'[c].op \in OneShotOps) =>
              /\ calls'[c].refreshes = 0 /\ calls'[c].gets = 0
              /\ calls'[c].pc \notin {"refresh_fetch", "refresh_json"}
              /\ IF calls[c].op = "idle"
                 THEN calls'[c].reqs =
                          IF calls'[c].op = "logout" /\ ~Truthy(getRefreshToken) THEN 0 ELSE 1
                 ELSE /\ calls'[c].reqs = calls[c].reqs
                      /\ calls'[c].resp \in {"401", "500"} =>
                             calls'[c].pc \in {"errjson", "done"}]_vars

C12_UpdateRejectedWithoutRefresh ==
    \E c \in Calls :
        /\ Settled(c, "updateProfile") /\ calls[c].resp = "401"
        /\ calls[c].result = "AuthError"
        /\ calls[c].reqs = 1 /\ calls[c].refreshes = 0
        /\ Truthy(getRefreshToken)

\* C13: when a profile GET is answered with a non-success status other than
\* 401, getProfile settles with 'Failed to fetch profile' in that very step:
\* no refresh request, no retry, and getProfile writes none of the three
\* store slots (under checkAuth the caller's catch then clears the tokens).
C13_OtherFailureIsFinal ==
    [][\A c \in Calls :
          (/\ Moved(c) /\ calls[c].op \in ProfileOps /\ calls[c].pc = "fetch"
           /\ calls'[c].resp \notin {"ok", "throw", "401"}) =>
              /\ calls'[c].pc = "done"
              /\ calls'[c].result = "Failed to fetch profile"
              /\ calls'[c].reqs = calls[c].reqs
              /\ calls'[c].refreshes = calls[c].refreshes
              /\ calls'[c].gets = calls[c].gets
              /\ calls'[c].depth = calls[c].depth
              /\ store' = IF calls[c].op = "checkAuth"
                          THEN [store EXCEPT !.access_token = Null, !.refresh_token = Null,
                                             !.user = Null]
                          ELSE store]_vars

C13_ProfileFailedSessionKept ==
    \E c \in Calls :
        /\ Settled(c, "refreshUser") /\ calls[c].resp = "500"
        /\ calls[c].result = "Failed to fetch profile"
        /\ calls[c].refreshes = 0 /\ calls[c].gets = 1
        /\ isAuthenticated /\ Truthy(getRefreshToken) /\ getUser # Null

\* C14: with no persistence medium every getter reports absent, every
\* setter leaves nothing behind, and so through any sequence of operations,
\* successful login and refreshAccessToken included, isAuthenticated() stays
\* false; logout and refreshAccessToken return without a request (no step
\* of Next left out of NextNoWindow is ever enabled), and a call fails only
\* when the server's answer makes it fail.
C14_NoMediumNoSession ==
    /\ Absent /\ ~isAuthenticated
    /\ store = EmptyStore
    /\ getHeaders(TRUE) = NoHeader
    /\ \A c \in Calls :
          /\ calls[c].pc \notin {"refresh_fetch", "refresh_json"}
          /\ ~At(c, "logout", "fetch")
          /\ calls[c].op # "checkAuth"
          /\ Settled(c, "refreshAccessToken") =>
                 calls[c].result = "false" /\ calls[c].reqs = 0
          /\ Settled(c, "logout") => calls[c].result = "ok" /\ calls[c].reqs = 0
          /\ (calls[c].pc = "done" /\ ~Resolved(calls[c].result)) =>
                 /\ calls[c].reqs > 0
                 /\ \/ calls[c].resp \in {"401", "500", "throw"}
                    \/ calls[c].result = "TransportError"

C14_LoggedInWithoutMedium ==
    \E c \in Calls :
        /\ ~hasWindow
        /\ Settled(c, "login") /\ calls[c].result = "ok"
        /\ calls[c].ret.access \in AccessTokens
        /\ user = calls[c].ret.user
        /\ ~isAuthenticated /\ Absent

\* the access token a usable refresh body grants
Granted(data) ==
    IF data.access_token \in AccessTokens THEN data.access_token
    ELSE data.tokens.access_token

\* C15: refreshes are not de-duplicated.  A getProfile call that receives a
\* 401 while a refresh token is stored issues its own refresh request,
\* whatever the other calls are doing; and each successful refresh writes the
\* access token of its own response over whatever is stored (the last one
\* processed wins), leaving the refresh token and the identity as they were.
C15_EachRefreshesLastWriteWins ==
    [][\A c \in Calls :
          (Moved(c) /\ calls[c].op \in ProfileOps) =>
              /\ (/\ calls[c].pc = "fetch" /\ calls'[c].resp = "401"
                  /\ Truthy(getRefreshToken)) =>
                     /\ calls'[c].pc = "refresh_fetch"
                     /\ calls'[c].refreshes = calls[c].refreshes + 1
                     /\ calls'[c].reqs = calls[c].reqs + 1
              /\ (calls[c].pc = "refresh_json" /\ calls'[c].pc = "fetch") =>
                     /\ calls'[c].data \in RefreshBodies
                     /\ Granted(calls'[c].data) \in AccessTokens
                     /\ store'.access_token = Granted(calls'[c].data)
                     /\ store'.refresh_token = store.refresh_token
                     /\ store'.user = store.user]_vars

C15_SecondRefreshOverwroteFirst ==
    \E c, d \in Calls :
        /\ c # d
        /\ calls[c].op \in ProfileOps /\ calls[d].op \in ProfileOps
        /\ calls[c].pc = "fetch" /\ calls[d].pc = "fetch"
        /\ calls[c].refreshes = 1 /\ calls[d].refreshes = 1
        /\ Granted(calls[c].data) # Granted(calls[d].data)
        /\ calls[c].auth = Bearer(Granted(calls[c].data))
        /\ store.access_token = Granted(calls[d].data)
        /\ Truthy(store.refresh_token)

\* call c sent a request in this step
Issued(c) ==
    /\ Moved(c)
    /\ calls'[c].pc \in {"fetch", "refresh_fetch"}
    /\ calls'[c].pc # calls[c].pc

\* the requests built with getHeaders(true)
NeedsAuth(call) == call.pc = "fetch" /\ call.op \notin {"login", "register"}

\* C16: a request that requires authentication carries as bearer token the
\* access token in the store when the request is built, and no Authorization
\* header when none is stored; login, register and refresh requests carry
\* none.  The profile request retried after a successful refresh carries the
\* token that refresh just wrote, and the identity getProfile returns is the
\* one of the response it read, which is also the one cached.
C16_BearerIsStoredToken ==
    [][\A c \in Calls :
          /\ Issued(c) =>
                 calls'[c].auth =
                     IF NeedsAuth(calls'[c]) /\ Truthy(store'.access_token)
                     THEN Bearer(store'.access_token)
                     ELSE NoHeader
          /\ (/\ Moved(c) /\ calls[c].op \in ProfileOps
              /\ calls[c].pc = "refresh_json" /\ calls'[c].pc = "fetch") =>
                 calls'[c].auth = Bearer(Granted(calls'[c].data))
          /\ (/\ Moved(c) /\ calls[c].op \in ProfileOps
              /\ calls[c].pc = "json" /\ calls'[c].result = "ok") =>
                 /\ getUser' = calls'[c].ret.user
                 /\ user' = calls'[c].ret.user]_vars

C16_RetryCarriesNewToken ==
    \E c \in Calls :
        /\ calls[c].op = "refreshUser" /\ calls[c].pc = "fetch" /\ calls[c].depth = 1
        /\ calls[c].data.tokens.present /\ calls[c].data.access_token = Null
        /\ calls[c].auth = Bearer(calls[c].data.tokens.access_token)
        /\ store.access_token = calls[c].data.tokens.access_token

\* C17: once the initial check has finished (loading is false), the provider
\* exposes a user only while the store holds an access token.
C17_UserOnlyWithToken ==
    (~loading /\ user # Null) => isAuthenticated

\* C18: the access token and the refresh token are present or absent
\* together in every state.
C18_TokensTogether ==
    Truthy(store.access_token) <=> Truthy(store.refresh_token)

\* C19: once logout or a successful deleteAccount has completed, and until
\* a login or register succeeds, isAuthenticated() is false: no call that was
\* in flight at the clearing puts an access token back.
C19_StaysDestroyed ==
    destroyed => ~isAuthenticated

\* C20: whatever the server answers, as long as it answers every request,
\* the provider's loading flag eventually becomes false and stays false.
C20_LoadingEnds == <>[](~loading)

====
